---- MODULE Spec2Model ----
(***************************************************************************)
(* A model of sinmetal/gcpbox:                                             *)
(*   metadata/metadata.go     identity and placement lookups               *)
(*   spanner/query_stats.go   copy of Spanner query statistics to BigQuery *)
(*                                                                         *)
(* Go strings are sequences of one-character strings, so that Split,       *)
(* slicing, Sprintf and integer formatting are computed on characters.     *)
(***************************************************************************)
EXTENDS Integers, Sequences, FiniteSets, TLC

VARIABLES
    onGCE,     \* metadata.OnGCE(): whether the process runs on GCP
    environ,   \* the process environment: variable name -> value
    server,    \* the metadata server: path -> response
    call,      \* the last completed public call, with what it did
    tables,    \* the Spanner database: relation name -> rows
    qss,       \* the caller's []*QueryStat (the structs are shared by pointer)
    from,      \* the relation name the caller's qss was fetched with
    dest,      \* the destination table's visible rows
    copies,    \* bookkeeping of the completed ToBigQuery calls
    recs,      \* two QueryStat values, for ToInsertID on its own
    rets       \* per value of recs, the strings ToInsertID returned so far

vars == <<onGCE, environ, server, call, tables, qss, from, dest, copies, recs, rets>>

metaVars == <<onGCE, environ, server>>
statsVars == <<tables, qss, from, dest, copies>>
idVars == <<recs, rets>>

----------------------------------------------------------------------------
(* Bounds *)

MaxFP == 12       \* largest text_fingerprint magnitude drawn
MaxSec == 12      \* largest interval_end second drawn
MaxCalls == 2     \* ToInsertID calls per value in SpecInsertID
MaxRows == 2      \* rows of the source view
MaxRuns == 2      \* successful ToBigQuery calls counted
MaxLen == 5       \* length of a raw zone path
MaxEmailLen == 3  \* length of a service account email

----------------------------------------------------------------------------
(* Strings *)

NoCall == [op |-> "none"]

RECURSIVE SeqsUpTo(_, _)
SeqsUpTo(S, n) ==
    IF n = 0 THEN {<<>>}
    ELSE LET shorter == SeqsUpTo(S, n - 1)
         IN  shorter \cup {Append(s, c) : s \in {t \in shorter : Len(t) = n - 1}, c \in S}

Digit(d) ==
    CASE d = 0 -> "0" [] d = 1 -> "1" [] d = 2 -> "2" [] d = 3 -> "3" [] d = 4 -> "4"
      [] d = 5 -> "5" [] d = 6 -> "6" [] d = 7 -> "7" [] d = 8 -> "8" [] d = 9 -> "9"

RECURSIVE FormatUint(_)
FormatUint(n) ==
    IF n < 10 THEN <<Digit(n)>> ELSE FormatUint(n \div 10) \o <<Digit(n % 10)>>

\* fmt's %v of an int64: decimal digits, with a leading '-' when negative.
FormatInt(n) == IF n < 0 THEN <<"-">> \o FormatUint(-n) ELSE FormatUint(n)

----------------------------------------------------------------------------
(* spanner/query_stats.go: QueryStat and ToInsertID *)

\* time.Time values of interval_end: whole seconds and a sub-second part.
Times == {[sec |-> s, nsec |-> n] : s \in {-1, 0, MaxSec}, n \in {0, 500000000}}

\* time.Time.Unix(): the seconds since the epoch, the sub-second part dropped.
Unix(t) == t.sec

Fingerprints == {-MaxFP, -1, 0, 1, MaxFP}

\* The fields of QueryStat; ExecuteCount stands for the statistics columns.
QueryStat(t, fp, n) ==
    [InsertID |-> <<>>, IntervalEnd |-> t, TextFingerprint |-> fp, ExecuteCount |-> n]

QueryStats == {QueryStat(t, fp, n) : t \in Times, fp \in Fingerprints, n \in {1, 2}}

Separator == <<"-", "_", "-">>

\* A plausible slip: a neighbouring integer column is formatted instead of
\* the fingerprint.
InsertIDOfExecuteCount(s) ==
    FormatInt(Unix(s.IntervalEnd)) \o Separator \o FormatInt(s.ExecuteCount)

\* The string ToInsertID computes and stores in s.InsertID.
InsertIDOf(s) == FormatInt(Unix(s.IntervalEnd)) \o Separator \o FormatInt(s.TextFingerprint)

\* A plausible slip: the new id is appended to the field instead of replacing it.
ToInsertIDAppend(s) ==
    LET id == s.InsertID \o InsertIDOf(s)
    IN  [s |-> [s EXCEPT !.InsertID = id], ret |-> id]

\* (s *QueryStat) ToInsertID(): the struct after the call, and the string returned.
ToInsertID(s) ==
    LET id == InsertIDOf(s)
    IN  [s |-> [s EXCEPT !.InsertID = id], ret |-> id]

----------------------------------------------------------------------------
(* ToInsertID on its own: two values, each called any number of times *)

IdleMeta ==
    /\ onGCE = FALSE
    /\ environ = <<>>
    /\ server = <<>>

IdleStats ==
    /\ tables = <<>>
    /\ qss = <<>>
    /\ from = "none"
    /\ dest = {}
    /\ copies = [ok |-> 0, failed |-> FALSE, of |-> {}]

IdleID ==
    /\ recs = <<>>
    /\ rets = <<>>

InitInsertID ==
    /\ recs \in [1..2 -> QueryStats]
    /\ rets = [i \in 1..2 |-> <<>>]
    /\ call = NoCall
    /\ IdleMeta
    /\ IdleStats

CallToInsertID(i) ==
    /\ Len(rets[i]) < MaxCalls
    /\ LET r == ToInsertID(recs[i])
       IN  /\ recs' = [recs EXCEPT ![i] = r.s]
           /\ rets' = [rets EXCEPT ![i] = Append(@, r.ret)]
           /\ call' = [op |-> "ToInsertID", val |-> r.ret]
    /\ UNCHANGED <<metaVars, statsVars>>

NextInsertID == \E i \in 1..2 : CallToInsertID(i)

SpecInsertID == InitInsertID /\ [][NextInsertID]_vars

\* C1: every string ToInsertID returns is "<interval_end_unix>-_-<text_fingerprint>"
\* of the value it was called on, whatever its other fields and however often it
\* was called before; so two values with the same interval_end get the same
\* string when their fingerprints are equal and different strings when they differ.
C1_InsertIDDeterministic ==
    \A i \in 1..2 : \A j \in 1..2 : \A k \in 1..Len(rets[i]) : \A l \in 1..Len(rets[j]) :
        /\ rets[i][k] = FormatInt(recs[i].IntervalEnd.sec) \o <<"-", "_", "-">>
                            \o FormatInt(recs[i].TextFingerprint)
        /\ recs[i].InsertID = rets[i][Len(rets[i])]
        /\ recs[i].IntervalEnd = recs[j].IntervalEnd =>
              (rets[i][k] = rets[j][l] <=> recs[i].TextFingerprint = recs[j].TextFingerprint)

\* Both cases at once: value 1 called twice, value 2 called, same interval_end,
\* fingerprints that differ only in sign, different other fields.
C1_Witness ==
    /\ Len(rets[1]) = 2 /\ Len(rets[2]) >= 1
    /\ recs[1].IntervalEnd = recs[2].IntervalEnd
    /\ recs[1].TextFingerprint = -recs[2].TextFingerprint
    /\ recs[1].TextFingerprint > 9
    /\ recs[1].ExecuteCount # recs[2].ExecuteCount

----------------------------------------------------------------------------
(* spanner/query_stats.go: QueryStatsCopyService *)

queryStatsTopMinuteTable == "spanner_sys.query_stats_top_minute"
queryStatsTop10MinuteTable == "spanner_sys.query_stats_top_10minute"
queryStatsTopHourTable == "spanner_sys.query_stats_top_hour"

ViewNames == {queryStatsTopMinuteTable, queryStatsTop10MinuteTable, queryStatsTopHourTable}

\* What a caller may pass as `table`: the parameter is a string.
TableArgs == ViewNames \cup {"users"}

\* The template queryStatsTopMinute executed with QueryStatsParam{Table: table}:
\* text/template writes the field into the text as it is.
Execute(param) ==
    <<"SELECT text, text_truncated, text_fingerprint, interval_end, execution_count, avg_latency_seconds, avg_rows, avg_bytes, avg_rows_scanned, avg_cpu_seconds FROM ",
      param.Table, "\n">>

QueryStatsParam(table) == [Table |-> table]

\* The relation a statement reads.
FromOf(stmt) == stmt[2]

\* The rows of the statistics views: interval ends on whole seconds.
SourceRows == {s \in QueryStats : /\ s.IntervalEnd.nsec = 0 /\ s.IntervalEnd.sec >= 0
                                   /\ s.TextFingerprint \in {-1, 1}
                                   /\ s.ExecuteCount = 1}

\* A view holds one row per (interval_end, text_fingerprint).
Views == {v \in SeqsUpTo(SourceRows, MaxRows) :
            \A i \in 1..Len(v) : \A j \in 1..Len(v) : i # j => v[i] # v[j]}

\* GetQueryStats(ctx, table). `fails` is the outcome of the read (iter.Next or
\* row.ToStruct returning an error); a relation the database does not have, or
\* one without the selected columns, always fails.
GetQueryStats(table, fails) ==
    LET stmt == Execute(QueryStatsParam(table))
        bad == fails \/ FromOf(stmt) \notin DOMAIN tables
        trip == [kind |-> "query", what |-> stmt, err |-> IF bad THEN "QueryError" ELSE "nil"]
    IN  IF bad
        THEN [val |-> <<>>, err |-> "QueryError", trips |-> <<trip>>]
        ELSE [val |-> tables[FromOf(stmt)], err |-> "nil", trips |-> <<trip>>]

\* bigquery.StructSaver{Schema: queryStatsBigQueryTableSchema, InsertID: id, Struct: qs}:
\* the row carries the columns of the schema, which has no InsertID column.
StructSaver(id, qs) ==
    [InsertID |-> id,
     Row |-> [IntervalEnd |-> qs.IntervalEnd, TextFingerprint |-> qs.TextFingerprint,
              ExecuteCount |-> qs.ExecuteCount]]

\* The loop of ToBigQuery over qss: the savers, in order.
RECURSIVE Savers(_)
Savers(l) ==
    IF l = <<>> THEN <<>>
    ELSE <<StructSaver(ToInsertID(Head(l)).ret, Head(l))>> \o Savers(Tail(l))

\* The same loop's effect on the structs qss points to.
Stamped(l) == [i \in 1..Len(l) |-> ToInsertID(l[i]).s]

\* A plausible slip: one Put per record, stopping at the first failure.
ToBigQueryPerRow(l, putErr) ==
    LET sss == Savers(l)
    IN  [qss |-> Stamped(l), err |-> IF l = <<>> THEN "nil" ELSE putErr,
         trips |-> [i \in 1..(IF putErr = "nil" THEN Len(l) ELSE IF l = <<>> THEN 0 ELSE 1) |->
                      [kind |-> "insert", what |-> <<sss[i]>>, err |-> putErr]]]

\* ToBigQuery(ctx, dataset, table, qss). `putErr` is what Inserter.Put returns.
ToBigQuery(l, putErr) ==
    LET sss == Savers(l)
    IN  [qss |-> Stamped(l), err |-> putErr,
         trips |-> <<[kind |-> "insert", what |-> sss, err |-> putErr]>>]

\* The destination: a table that keeps at most one row per insert-id, the first
\* one it received.
RECURSIVE InsertAll(_, _)
InsertAll(d, sss) ==
    IF sss = <<>> THEN d
    ELSE InsertAll(IF \E r \in d : r.InsertID = Head(sss).InsertID THEN d
                   ELSE d \cup {Head(sss)},
                   Tail(sss))

\* The effect on the destination of the insert calls issued: a call that
\* failed inserted nothing.
RECURSIVE Inserted(_, _)
Inserted(d, trips) ==
    IF trips = <<>> THEN d
    ELSE Inserted(IF Head(trips).err = "nil" THEN InsertAll(d, Head(trips).what) ELSE d,
                  Tail(trips))

HourRow == QueryStat([sec |-> MaxSec, nsec |-> 0], MaxFP, 1)

InitStats ==
    /\ \E rows \in Views :
          tables = (queryStatsTopMinuteTable :> rows)
                   @@ (queryStatsTop10MinuteTable :> <<>>)
                   @@ (queryStatsTopHourTable :> <<HourRow>>)
    /\ qss = <<>>
    /\ from = "none"
    /\ dest = {}
    /\ copies = [ok |-> 0, failed |-> FALSE, of |-> {}]
    /\ call = NoCall
    /\ IdleMeta
    /\ IdleID

CallGetQueryStats(table, fails) ==
    /\ LET r == GetQueryStats(table, fails)
       IN  /\ call' = [op |-> "GetQueryStats", arg |-> table, val |-> r.val,
                       err |-> r.err, trips |-> r.trips]
           /\ IF r.err = "nil"
              THEN qss' = r.val /\ from' = table
              ELSE UNCHANGED <<qss, from>>
    /\ UNCHANGED <<tables, dest, copies, metaVars, idVars>>

CallToBigQuery(putErr) ==
    /\ copies.ok < MaxRuns
    /\ LET r == ToBigQuery(qss, putErr)
       IN  /\ call' = [op |-> "ToBigQuery", arg |-> qss, val |-> r.qss,
                       err |-> r.err, trips |-> r.trips]
           /\ qss' = r.qss
           /\ dest' = Inserted(dest, r.trips)
           /\ copies' = IF r.err = "nil"
                        THEN [copies EXCEPT !.ok = @ + 1, !.of = @ \cup {from}]
                        ELSE [copies EXCEPT !.failed = TRUE]
    /\ UNCHANGED <<tables, from, metaVars, idVars>>

NextStats ==
    \/ \E table \in TableArgs, fails \in BOOLEAN : CallGetQueryStats(table, fails)
    \/ \E putErr \in {"nil", "PutError"} : CallToBigQuery(putErr)

SpecStats == InitStats /\ [][NextStats]_vars

\* The insert-id the specification gives a record.
ExpectedID(qs) ==
    FormatInt(qs.IntervalEnd.sec) \o <<"-", "_", "-">> \o FormatInt(qs.TextFingerprint)

ExpectedRow(qs) ==
    [InsertID |-> ExpectedID(qs),
     Row |-> [IntervalEnd |-> qs.IntervalEnd, TextFingerprint |-> qs.TextFingerprint,
              ExecuteCount |-> qs.ExecuteCount]]

\* C2: after any number of successful copies of an unchanged view T (each one a
\* GetQueryStats of T followed by ToBigQuery, or ToBigQuery again on the same
\* records), the destination holds exactly one row per row of T, under that
\* row's insert-id: the same rows as after the first copy. Two rows of T with
\* distinct fingerprints in one interval give two rows with distinct insert-ids.
C2_CopyIdempotent ==
    \A T \in ViewNames :
        (copies.ok >= 1 /\ ~copies.failed /\ copies.of = {T}) =>
            /\ dest = {ExpectedRow(tables[T][i]) : i \in 1..Len(tables[T])}
            /\ Cardinality({r.InsertID : r \in dest}) = Len(tables[T])

\* Two successful copies of a view with two rows of one interval.
C2_Witness ==
    /\ copies.ok = 2 /\ ~copies.failed /\ copies.of = {queryStatsTopMinuteTable}
    /\ Len(tables[queryStatsTopMinuteTable]) = 2
    /\ tables[queryStatsTopMinuteTable][1].IntervalEnd = tables[queryStatsTopMinuteTable][2].IntervalEnd
    /\ tables[queryStatsTopMinuteTable][1].TextFingerprint # tables[queryStatsTopMinuteTable][2].TextFingerprint
    /\ Cardinality(dest) = 2

\* C3: a ToBigQuery call issues exactly one insert call; the call carries one
\* entry per input record, in input order, each with the insert-id of its record
\* and the record's columns; and ToBigQuery fails exactly when that call fails.
C3_SingleBulkInsert ==
    call.op = "ToBigQuery" =>
        /\ Len(call.trips) = 1
        /\ call.trips[1].kind = "insert"
        /\ Len(call.trips[1].what) = Len(call.arg)
        /\ \A i \in 1..Len(call.arg) : call.trips[1].what[i] = ExpectedRow(call.arg[i])
        /\ (call.err # "nil") <=> (call.trips[1].err # "nil")

\* A failing insert of two records, and a successful one.
C3_Witness ==
    /\ call.op = "ToBigQuery" /\ Len(call.arg) = 2
    /\ call.arg[1] # call.arg[2]
    /\ call.err # "nil"

\* C10: every statement GetQueryStats sends reads one of the three fixed views.
C10_OnlyFixedViews ==
    call.op = "GetQueryStats" =>
        \A i \in 1..Len(call.trips) : call.trips[i].what[2] \in ViewNames

----------------------------------------------------------------------------
(* metadata/metadata.go: ExtractionRegion and ExtractionZone *)

\* strings.Split(s, sep) for a one-character sep: the pieces between the
\* separators, a single piece (s itself) when s holds none.
RECURSIVE Split(_, _)
Split(s, sep) ==
    IF \E i \in 1..Len(s) : s[i] = sep
    THEN LET i == CHOOSE k \in 1..Len(s) : s[k] = sep /\ \A m \in 1..(k - 1) : s[m] # sep
         IN  <<SubSeq(s, 1, i - 1)>> \o Split(SubSeq(s, i + 1, Len(s)), sep)
    ELSE <<s>>

\* A plausible slip: only the dash is cut, the zone letter stays.
ExtractionRegionOneChar(metaZone) ==
    LET l == Split(metaZone, "/")
        v == l[Len(l)]
    IN  IF Len(l) < 1 \/ Len(v) < 3 THEN [val |-> <<>>, err |-> "InvalidArgument"]
        ELSE [val |-> SubSeq(v, 1, Len(v) - 1), err |-> "nil"]

ExtractionRegion(metaZone) ==
    LET l == Split(metaZone, "/")
    IN  IF Len(l) < 1 THEN [val |-> <<>>, err |-> "InvalidArgument"]
        ELSE LET v == l[Len(l)]
             IN  IF Len(v) < 3 THEN [val |-> <<>>, err |-> "InvalidArgument"]
                 ELSE [val |-> SubSeq(v, 1, Len(v) - 2), err |-> "nil"]

ExtractionZone(metaZone) ==
    LET l == Split(metaZone, "/")
    IN  IF Len(l) < 1 THEN [val |-> <<>>, err |-> "InvalidArgument"]
        ELSE [val |-> l[Len(l)], err |-> "nil"]

ProjectsSlash == <<"p", "r", "o", "j", "e", "c", "t", "s", "/">>
SlashZonesSlash == <<"/", "z", "o", "n", "e", "s", "/">>
UsCentral1A == <<"u", "s", "-", "c", "e", "n", "t", "r", "a", "l", "1", "-", "a">>

\* Numeric project ids and zone names of the metadata server's zone value.
ProjectNumbers == {<<"1">>, <<"1", "2", "3">>}
ZoneNames == SeqsUpTo({"a", "-"}, MaxLen) \cup {UsCentral1A}

\* projects/[NUMERIC_PROJECT_ID]/zones/[ZONE]
ZonePath(id, zone) == ProjectsSlash \o id \o SlashZonesSlash \o zone

\* The arguments drawn: every short string over '/', 'a', '-', and the
\* well-formed paths.
Paths ==
    SeqsUpTo({"/", "a", "-"}, MaxLen)
        \cup {ZonePath(id, zone) : id \in ProjectNumbers, zone \in ZoneNames}

\* The argument is drawn first; the two functions are then applied to it.
InitExtract ==
    /\ call \in {[op |-> "none", arg |-> metaZone] : metaZone \in Paths}
    /\ IdleMeta
    /\ IdleStats
    /\ IdleID

CallExtractionRegion ==
    /\ LET r == ExtractionRegion(call.arg)
       IN  call' = [op |-> "ExtractionRegion", arg |-> call.arg, val |-> r.val, err |-> r.err]
    /\ UNCHANGED <<metaVars, statsVars, idVars>>

CallExtractionZone ==
    /\ LET r == ExtractionZone(call.arg)
       IN  call' = [op |-> "ExtractionZone", arg |-> call.arg, val |-> r.val, err |-> r.err]
    /\ UNCHANGED <<metaVars, statsVars, idVars>>

NextExtract ==
    \/ CallExtractionRegion
    \/ CallExtractionZone

SpecExtract == InitExtract /\ [][NextExtract]_vars

HasSlash(p) == \E i \in 1..Len(p) : p[i] = "/"

\* The characters of p after its last '/'.
AfterLastSlash(p) ==
    LET i == CHOOSE k \in 1..Len(p) : p[k] = "/" /\ \A m \in (k + 1)..Len(p) : p[m] # "/"
    IN  SubSeq(p, i + 1, Len(p))

\* C4: for a raw zone path without '/', and for one whose part after the last
\* '/' is shorter than 3 characters, ExtractionRegion and ExtractionZone both
\* fail with InvalidArgument and return no value.
C4_MalformedPathRejected ==
    (/\ call.op \in {"ExtractionRegion", "ExtractionZone"}
     /\ (~HasSlash(call.arg) \/ Len(AfterLastSlash(call.arg)) < 3)) =>
        (call.err = "InvalidArgument" /\ call.val = <<>>)

\* C5: for projects/{id}/zones/{zone} with a {zone} of at least 3 characters,
\* ExtractionZone returns {zone} and ExtractionRegion returns {zone} without its
\* last two characters, both without error.
C5_WellFormedPathExtracted ==
    \A id \in ProjectNumbers : \A zone \in ZoneNames :
        (Len(zone) >= 3 /\ call.op \in {"ExtractionRegion", "ExtractionZone"}
           /\ call.arg = ProjectsSlash \o id \o SlashZonesSlash \o zone) =>
            /\ call.err = "nil"
            /\ call.op = "ExtractionZone" => call.val = zone
            /\ call.op = "ExtractionRegion" =>
                  /\ Len(call.val) = Len(zone) - 2
                  /\ \A i \in 1..Len(call.val) : call.val[i] = zone[i]

\* projects/123/zones/us-central1-a gives the region us-central1.
C5_Witness ==
    /\ call.op = "ExtractionRegion"
    /\ call.arg = ProjectsSlash \o <<"1", "2", "3">> \o SlashZonesSlash \o UsCentral1A
    /\ call.val = <<"u", "s", "-", "c", "e", "n", "t", "r", "a", "l", "1">>

----------------------------------------------------------------------------
(* metadata/metadata.go: the lookups *)

\* What a lookup returns and what it did: the value, the error, the network
\* requests it issued and the environment variables it read, both in order.
Result(val, err, trips, reads) == [val |-> val, err |-> err, trips |-> trips, reads |-> reads]

\* os.Getenv: the value, the empty string when the variable is unset.
Getenv(name) == IF name \in DOMAIN environ THEN environ[name] ELSE <<>>

\* A plausible slip: a failed GET is tried once more.
GetWithRetry(path) ==
    LET r == server[path]
        err == IF r.status = 200 THEN "nil" ELSE "MetadataError"
        trip == [kind |-> "metadata", what |-> path, err |-> err]
    IN  Result(IF err = "nil" THEN r.body ELSE <<>>, err,
               IF err = "nil" THEN <<trip>> ELSE <<trip, trip>>, <<>>)

\* One GET of the metadata server: the body on status 200, an error on any
\* other status and when no response arrives (status 0).
Get(path) ==
    LET r == server[path]
        err == IF r.status = 200 THEN "nil" ELSE "MetadataError"
    IN  Result(IF err = "nil" THEN r.body ELSE <<>>, err,
               <<[kind |-> "metadata", what |-> path, err |-> err]>>, <<>>)

\* getMetadata(path): GET computeMetadata/v1/instance/{path}.
getMetadata(path) == Get("instance/" \o path)

OnGCP == onGCE

\* A plausible slip: the two variables are read in the other order.
ProjectIDGcloudFirst ==
    IF ~onGCE
    THEN LET p == Getenv("GCLOUD_PROJECT")
             q == Getenv("GOOGLE_CLOUD_PROJECT")
         IN  IF p # <<>> THEN Result(p, "nil", <<>>, <<"GCLOUD_PROJECT">>)
             ELSE IF q # <<>>
                  THEN Result(q, "nil", <<>>, <<"GCLOUD_PROJECT", "GOOGLE_CLOUD_PROJECT">>)
                  ELSE Result(<<>>, "NotFound", <<>>, <<"GCLOUD_PROJECT", "GOOGLE_CLOUD_PROJECT">>)
    ELSE LET m == Get("project/project-id")
         IN  IF m.err # "nil" THEN Result(<<>>, "MetadataError", m.trips, <<>>)
             ELSE IF m.val = <<>> THEN Result(<<>>, "NotFound", m.trips, <<>>)
             ELSE Result(m.val, "nil", m.trips, <<>>)

ProjectID ==
    IF ~onGCE
    THEN LET p == Getenv("GOOGLE_CLOUD_PROJECT")
             q == Getenv("GCLOUD_PROJECT")
         IN  IF p # <<>> THEN Result(p, "nil", <<>>, <<"GOOGLE_CLOUD_PROJECT">>)
             ELSE IF q # <<>>
                  THEN Result(q, "nil", <<>>, <<"GOOGLE_CLOUD_PROJECT", "GCLOUD_PROJECT">>)
                  ELSE Result(<<>>, "NotFound", <<>>, <<"GOOGLE_CLOUD_PROJECT", "GCLOUD_PROJECT">>)
    ELSE LET m == Get("project/project-id")
         IN  IF m.err # "nil" THEN Result(<<>>, "MetadataError", m.trips, <<>>)
             ELSE IF m.val = <<>> THEN Result(<<>>, "NotFound", m.trips, <<>>)
             ELSE Result(m.val, "nil", m.trips, <<>>)

ServiceAccountEmail ==
    IF ~onGCE
    THEN Result(Getenv("GCLOUD_SERVICE_ACCOUNT"), "nil", <<>>, <<"GCLOUD_SERVICE_ACCOUNT">>)
    ELSE LET sa == getMetadata("service-accounts/default/email")
         IN  IF sa.err # "nil" THEN Result(<<>>, "MetadataError", sa.trips, <<>>)
             ELSE Result(sa.val, "nil", sa.trips, <<>>)

\* A plausible slip: the test is len(l) < 2.
ServiceAccountNameAtLeastTwo ==
    LET sa == ServiceAccountEmail
        l == Split(sa.val, "@")
    IN  IF sa.err # "nil" THEN Result(<<>>, sa.err, sa.trips, sa.reads)
        ELSE IF Len(l) < 2 THEN Result(<<>>, "InvalidFormat", sa.trips, sa.reads)
        ELSE Result(l[1], "nil", sa.trips, sa.reads)

\* The error of line 70 is the one the specification calls InvalidFormat.
ServiceAccountName ==
    LET sa == ServiceAccountEmail
        l == Split(sa.val, "@")
    IN  IF sa.err # "nil" THEN Result(<<>>, sa.err, sa.trips, sa.reads)
        ELSE IF Len(l) # 2 THEN Result(<<>>, "InvalidFormat", sa.trips, sa.reads)
        ELSE Result(l[1], "nil", sa.trips, sa.reads)

SlashServiceAccountsSlash ==
    <<"/", "s", "e", "r", "v", "i", "c", "e", "A", "c", "c", "o", "u", "n", "t", "s", "/">>

\* A plausible slip: the error of the project lookup is dropped.
ServiceAccountIDIgnoringProjectError ==
    LET sa == ServiceAccountEmail
        pID == ProjectID
    IN  IF sa.err # "nil" THEN Result(<<>>, sa.err, sa.trips, sa.reads)
        ELSE Result(ProjectsSlash \o pID.val \o SlashServiceAccountsSlash \o sa.val, "nil",
                    sa.trips \o pID.trips, sa.reads \o pID.reads)

ServiceAccountID ==
    LET sa == ServiceAccountEmail
        pID == ProjectID
    IN  IF sa.err # "nil" THEN Result(<<>>, sa.err, sa.trips, sa.reads)
        ELSE IF pID.err # "nil"
             THEN Result(<<>>, pID.err, sa.trips \o pID.trips, sa.reads \o pID.reads)
             ELSE Result(ProjectsSlash \o pID.val \o SlashServiceAccountsSlash \o sa.val, "nil",
                         sa.trips \o pID.trips, sa.reads \o pID.reads)

Region ==
    IF ~onGCE
    THEN Result(Getenv("INSTANCE_REGION"), "nil", <<>>, <<"INSTANCE_REGION">>)
    ELSE LET zone == getMetadata("zone")
             r == ExtractionRegion(zone.val)
         IN  IF zone.err # "nil" THEN Result(<<>>, "MetadataError", zone.trips, <<>>)
             ELSE Result(r.val, r.err, zone.trips, <<>>)

Zone ==
    IF ~onGCE
    THEN Result(Getenv("INSTANCE_ZONE"), "nil", <<>>, <<"INSTANCE_ZONE">>)
    ELSE LET zone == getMetadata("zone")
             r == ExtractionZone(zone.val)
         IN  IF zone.err # "nil" THEN Result(<<>>, "MetadataError", zone.trips, <<>>)
             ELSE Result(r.val, r.err, zone.trips, <<>>)

GetInstanceAttribute(key) ==
    IF ~onGCE
    THEN Result(Getenv("INSTANCE_" \o key), "nil", <<>>, <<"INSTANCE_" \o key>>)
    ELSE LET v == Get("instance/attributes/" \o key)
         IN  IF v.err # "nil" THEN Result(<<>>, v.err, v.trips, <<>>)
             ELSE Result(v.val, "nil", v.trips, <<>>)

GetProjectAttribute(key) ==
    IF ~onGCE
    THEN Result(Getenv("PROJECT_" \o key), "nil", <<>>, <<"PROJECT_" \o key>>)
    ELSE LET v == Get("project/attributes/" \o key)
         IN  IF v.err # "nil" THEN Result(<<>>, v.err, v.trips, <<>>)
             ELSE Result(v.val, "nil", v.trips, <<>>)

----------------------------------------------------------------------------
(* The lookups in an environment that stays as it is *)

Projects == {<<>>, <<"p">>, <<"q">>}
Emails == SeqsUpTo({"a", "@"}, MaxEmailLen)
Keys == {"K"}
AttributeValues == {<<>>, <<"v">>}
ZoneBodies ==
    {<<>>, <<"a", "-", "a">>, ZonePath(<<"1">>, <<"-", "a">>), ZonePath(<<"1">>, <<"a", "a", "-", "a">>)}

\* The responses of the metadata server to one path: status 200 with a body,
\* 404, or no response at all (0).
Responses(bodies) ==
    {[status |-> 200, body |-> b] : b \in bodies}
        \cup {[status |-> 404, body |-> <<>>], [status |-> 0, body |-> <<>>]}

NoResponse == [status |-> 0, body |-> <<>>]

Environment(g, c, e, r, z, ia, pa) ==
    ("GOOGLE_CLOUD_PROJECT" :> g) @@ ("GCLOUD_PROJECT" :> c) @@ ("GCLOUD_SERVICE_ACCOUNT" :> e)
        @@ ("INSTANCE_REGION" :> r) @@ ("INSTANCE_ZONE" :> z)
        @@ ("INSTANCE_K" :> ia) @@ ("PROJECT_K" :> pa)

Server(p, e, z, ia, pa) ==
    ("project/project-id" :> p) @@ ("instance/service-accounts/default/email" :> e)
        @@ ("instance/zone" :> z)
        @@ ("instance/attributes/K" :> ia) @@ ("project/attributes/K" :> pa)

Environments ==
    {Environment(g, c, e, r, z, ia, pa) :
        g \in Projects, c \in Projects, e \in Emails,
        r \in {<<>>, <<"a", "a">>}, z \in {<<>>, <<"a", "a", "-", "a">>},
        ia \in AttributeValues, pa \in AttributeValues}

Servers ==
    {Server(p, e, z, ia, pa) :
        p \in Responses(Projects), e \in Responses(Emails), z \in Responses(ZoneBodies),
        ia \in {[status |-> 200, body |-> <<"v">>], NoResponse},
        pa \in {[status |-> 200, body |-> <<"v">>], NoResponse}}

\* Off GCP no metadata server answers; on GCP the variables of the fallback are
\* all unset or all set.
InitMeta ==
    /\ onGCE \in BOOLEAN
    /\ environ \in IF onGCE
                   THEN {Environment(<<>>, <<>>, <<>>, <<>>, <<>>, <<>>, <<>>),
                         Environment(<<"q">>, <<"q">>, <<"a", "@", "a">>, <<"a", "a">>,
                                     <<"a", "a", "-", "a">>, <<"v">>, <<"v">>)}
                   ELSE Environments
    /\ server \in IF onGCE
                  THEN Servers
                  ELSE {Server(NoResponse, NoResponse, NoResponse, NoResponse, NoResponse)}
    /\ call = NoCall
    /\ IdleStats
    /\ IdleID

Completed(op, arg, r) ==
    [op |-> op, arg |-> arg, val |-> r.val, err |-> r.err, trips |-> r.trips, reads |-> r.reads]

CallOnGCP ==
    /\ call' = Completed("OnGCP", <<>>, Result(OnGCP, "nil", <<>>, <<>>))
    /\ UNCHANGED <<metaVars, statsVars, idVars>>

CallProjectID ==
    /\ call' = Completed("ProjectID", <<>>, ProjectID)
    /\ UNCHANGED <<metaVars, statsVars, idVars>>

CallServiceAccountEmail ==
    /\ call' = Completed("ServiceAccountEmail", <<>>, ServiceAccountEmail)
    /\ UNCHANGED <<metaVars, statsVars, idVars>>

CallServiceAccountName ==
    /\ call' = Completed("ServiceAccountName", <<>>, ServiceAccountName)
    /\ UNCHANGED <<metaVars, statsVars, idVars>>

CallServiceAccountID ==
    /\ call' = Completed("ServiceAccountID", <<>>, ServiceAccountID)
    /\ UNCHANGED <<metaVars, statsVars, idVars>>

CallRegion ==
    /\ call' = Completed("Region", <<>>, Region)
    /\ UNCHANGED <<metaVars, statsVars, idVars>>

CallZone ==
    /\ call' = Completed("Zone", <<>>, Zone)
    /\ UNCHANGED <<metaVars, statsVars, idVars>>

CallGetInstanceAttribute(key) ==
    /\ call' = Completed("GetInstanceAttribute", key, GetInstanceAttribute(key))
    /\ UNCHANGED <<metaVars, statsVars, idVars>>

CallGetProjectAttribute(key) ==
    /\ call' = Completed("GetProjectAttribute", key, GetProjectAttribute(key))
    /\ UNCHANGED <<metaVars, statsVars, idVars>>

NextMeta ==
    \/ CallOnGCP
    \/ CallProjectID
    \/ CallServiceAccountEmail
    \/ CallServiceAccountName
    \/ CallServiceAccountID
    \/ CallRegion
    \/ CallZone
    \/ \E key \in Keys : CallGetInstanceAttribute(key)
    \/ \E key \in Keys : CallGetProjectAttribute(key)

SpecMeta == InitMeta /\ [][NextMeta]_vars

\* The number of '@' in an email.
Ats(e) == Cardinality({i \in 1..Len(e) : e[i] = "@"})

\* C6: off GCP, ProjectID returns GOOGLE_CLOUD_PROJECT when it is set, else
\* GCLOUD_PROJECT when it is set, and fails with NotFound exactly when neither
\* is; on GCP it reads no environment variable and fails with NotFound when the
\* metadata server returns an empty value; it never returns an empty string
\* without an error.
C6_ProjectIDFallback ==
    call.op = "ProjectID" =>
        /\ ~onGCE =>
              /\ environ["GOOGLE_CLOUD_PROJECT"] # <<>> =>
                    (call.val = environ["GOOGLE_CLOUD_PROJECT"] /\ call.err = "nil")
              /\ (environ["GOOGLE_CLOUD_PROJECT"] = <<>> /\ environ["GCLOUD_PROJECT"] # <<>>) =>
                    (call.val = environ["GCLOUD_PROJECT"] /\ call.err = "nil")
              /\ (call.err = "NotFound") <=>
                    (environ["GOOGLE_CLOUD_PROJECT"] = <<>> /\ environ["GCLOUD_PROJECT"] = <<>>)
              /\ call.err \in {"nil", "NotFound"}
        /\ onGCE =>
              /\ call.reads = <<>>
              /\ server["project/project-id"] = [status |-> 200, body |-> <<>>] =>
                    call.err = "NotFound"
        /\ call.err = "nil" => call.val # <<>>

\* Off GCP with only GCLOUD_PROJECT set: its value is returned.
C6_Witness ==
    /\ call.op = "ProjectID" /\ ~onGCE
    /\ environ["GOOGLE_CLOUD_PROJECT"] = <<>> /\ environ["GCLOUD_PROJECT"] = <<"p">>
    /\ call.val = <<"p">> /\ call.err = "nil"

\* The email ServiceAccountName works on, when the lookup of it succeeds.
EmailAvailable == ~onGCE \/ server["instance/service-accounts/default/email"].status = 200
EmailGiven ==
    IF onGCE THEN server["instance/service-accounts/default/email"].body
    ELSE environ["GCLOUD_SERVICE_ACCOUNT"]

\* C7: ServiceAccountName fails with InvalidFormat for every email that does
\* not hold exactly one '@', the empty email of an unset GCLOUD_SERVICE_ACCOUNT
\* included, and returns the part before the '@' of every email that holds one.
C7_ServiceAccountNameFormat ==
    (call.op = "ServiceAccountName" /\ EmailAvailable) =>
        IF Ats(EmailGiven) # 1
        THEN call.err = "InvalidFormat" /\ call.val = <<>>
        ELSE /\ call.err = "nil"
             /\ Len(call.val) < Len(EmailGiven)
             /\ EmailGiven[Len(call.val) + 1] = "@"
             /\ \A i \in 1..Len(call.val) : call.val[i] = EmailGiven[i]

\* Off GCP with GCLOUD_SERVICE_ACCOUNT unset.
C7_Witness ==
    /\ call.op = "ServiceAccountName" /\ ~onGCE
    /\ environ["GCLOUD_SERVICE_ACCOUNT"] = <<>>
    /\ call.err = "InvalidFormat"

\* C8: ServiceAccountID returns "projects/P/serviceAccounts/E" for the P of
\* ProjectID and the E of ServiceAccountEmail in the same environment, and fails
\* without a value when either of the two lookups fails.
C8_ServiceAccountIDComposed ==
    call.op = "ServiceAccountID" =>
        IF ProjectID.err = "nil" /\ ServiceAccountEmail.err = "nil"
        THEN /\ call.err = "nil"
             /\ call.val = <<"p", "r", "o", "j", "e", "c", "t", "s", "/">> \o ProjectID.val
                    \o <<"/", "s", "e", "r", "v", "i", "c", "e", "A", "c", "c", "o", "u", "n", "t", "s", "/">>
                    \o ServiceAccountEmail.val
        ELSE call.err # "nil" /\ call.val = <<>>

\* On GCP, with a project id and an email from the metadata server.
C8_Witness ==
    /\ call.op = "ServiceAccountID" /\ onGCE
    /\ call.err = "nil"
    /\ call.val = <<"p", "r", "o", "j", "e", "c", "t", "s", "/", "p",
                    "/", "s", "e", "r", "v", "i", "c", "e", "A", "c", "c", "o", "u", "n", "t", "s", "/",
                    "a", "@", "a">>

----------------------------------------------------------------------------
(* Both components: they share no state, and a run uses one of them *)

InitAll == InitMeta \/ InitStats

NextAll ==
    \/ server # <<>> /\ NextMeta
    \/ tables # <<>> /\ NextStats

SpecAll == InitAll /\ [][NextAll]_vars

LookupOps ==
    {"ProjectID", "ServiceAccountEmail", "ServiceAccountName", "ServiceAccountID",
     "Region", "Zone", "GetInstanceAttribute", "GetProjectAttribute"}

PublicOps == LookupOps \cup {"GetQueryStats", "ToBigQuery"}

\* C9 as stated: every public operation issues at most one network request
\* per call.
C9_AtMostOneRoundTrip ==
    call.op \in PublicOps => Len(call.trips) <= 1

\* C9: every public operation other than ServiceAccountID issues at most one
\* network request per call; ServiceAccountID issues at most two, the second
\* one (the project id) only after the first (the email) succeeded; off GCP the
\* lookups issue none.
C9_RoundTripsBounded ==
    call.op \in PublicOps =>
        /\ call.op # "ServiceAccountID" => Len(call.trips) <= 1
        /\ call.op = "ServiceAccountID" =>
              /\ Len(call.trips) <= 2
              /\ Len(call.trips) = 2 =>
                    /\ call.trips[1].what = "instance/service-accounts/default/email"
                    /\ call.trips[1].err = "nil"
                    /\ call.trips[2].what = "project/project-id"
        /\ (call.op \in LookupOps /\ ~onGCE) => call.trips = <<>>

\* ServiceAccountID on GCP: the email, then the project id.
C9_Witness ==
    /\ call.op = "ServiceAccountID" /\ onGCE
    /\ Len(call.trips) = 2

====
